---- MODULE Spec2Model ----
(***************************************************************************)
(* Verification model of the portrait-banana generation pipeline:          *)
(*   - RateLimitService (lib/rate-limit)                                   *)
(*   - AIService.generatePortrait (lib/ai-service)                         *)
(*   - the preview endpoint POST (app/api/generate-preview/route)          *)
(* Times are milliseconds as returned by Date.now().                       *)
(***************************************************************************)
EXTENDS Integers, Sequences, FiniteSets, TLC

VARIABLES
    nodeEnv,          \* process.env.NODE_ENV
    now,              \* the wall clock, Date.now()
    ticks,            \* number of clock advances so far
    rateLimitStore,   \* Map<string, RateLimitEntry>: a function on the stored keys
    lastResult,       \* the RateLimitResult returned by the latest checkRateLimit
    hist,             \* per identity, the direct checkRateLimit calls and their results
    devModeSkipAI,    \* env.get('DEV_MODE_SKIP_AI')
    maxRetries,       \* AIService.config.maxRetries
    retryCount,       \* AIService.retryCount, a field of the singleton aiService
    req,              \* the preview requests in flight, one per handler slot
    completed,        \* the request answered last, with its response
    posts,            \* number of POST requests received so far
    call              \* the latest application of one of the pure functions

rlVars == <<nodeEnv, now, ticks, rateLimitStore, lastResult, hist>>
genVars == <<devModeSkipAI, maxRetries, retryCount, req, completed, posts>>

----------------------------------------------------------------------------
(* Bounds of the exploration *)

MaxTicks == 3
MaxChecks == 5
MaxSlots == 2
MaxPosts == 4
MaxRequests == 2
MaxCalls == 3
MaxRetriesCfg == 1
MaxBase64Len == 4
MaxPreviewTicks == 1

----------------------------------------------------------------------------
(* Program constants *)

MAX_ATTEMPTS_PER_IP == 3
WINDOW_MS == 24 * 60 * 60 * 1000
DevMaxAttempts == 50
DevWindowMs == 60 * 60 * 1000

NodeEnvs == {"development", "production"}

\* An absent header
None == "none"

\* Request headers as getClientIP reads them. forwarded is the x-forwarded-for
\* value already split on ',' (the empty sequence is an absent header).
HeaderChoices ==
    { [forwarded |-> <<"a", "b">>, realIP |-> None, remoteAddr |-> None],
      [forwarded |-> <<>>, realIP |-> "a", remoteAddr |-> "b"],
      [forwarded |-> <<>>, realIP |-> None, remoteAddr |-> "unknown"],
      [forwarded |-> <<>>, realIP |-> None, remoteAddr |-> None] }

getClientIP(headers) ==
    IF headers.forwarded # <<>> THEN headers.forwarded[1]
    ELSE IF headers.realIP # None THEN headers.realIP
    ELSE IF headers.remoteAddr # None THEN headers.remoteAddr
    ELSE "unknown"

IPs == { getClientIP(h) : h \in HeaderChoices }

----------------------------------------------------------------------------
(* RateLimitService.checkRateLimit *)

isDevelopment == nodeEnv = "development"
windowMs == IF isDevelopment THEN DevWindowMs ELSE WINDOW_MS
maxAttempts == IF isDevelopment THEN DevMaxAttempts ELSE MAX_ATTEMPTS_PER_IP

\* Math.ceil(x / d) for an integer x and d > 0
CeilDiv(x, d) == -((-x) \div d)

\* `now > entry.resetTime`
IsExpired(entry, t) == t > entry.resetTime

\* Mutant: an expired entry gets a new window but keeps its count
CurrentEntryKeep(store, ip, t) ==
    IF ip \notin DOMAIN store
    THEN [count |-> 0, resetTime |-> t + windowMs, lastRequest |-> t]
    ELSE IF IsExpired(store[ip], t)
    THEN [store[ip] EXCEPT !.resetTime = t + windowMs, !.lastRequest = t]
    ELSE store[ip]

\* lines 117-126: the stored entry, or a fresh one when none is stored or the
\* stored one has expired
CurrentEntry(store, ip, t) ==
    IF ip \notin DOMAIN store \/ IsExpired(store[ip], t)
    THEN [count |-> 0, resetTime |-> t + windowMs, lastRequest |-> t]
    ELSE store[ip]

\* Mutant: the comparison lets one more request through
LimitReachedOff(entry) == entry.count > maxAttempts

\* line 129: `entry.count >= maxAttempts`
LimitReached(entry) == entry.count >= maxAttempts

\* Mutant: the sweep removes the live entries instead of the expired ones
cleanupLiveEntries(store, t) ==
    [ip \in { i \in DOMAIN store : IsExpired(store[i], t) } |-> store[ip]]

\* lines 180-187
cleanupExpiredEntries(store, t) ==
    [ip \in { i \in DOMAIN store : ~IsExpired(store[i], t) } |-> store[ip]]

\* The entry touched but not counted
IncrementedNot(entry, t) == [entry EXCEPT !.lastRequest = t]

\* lines 140-141
Incremented(entry, t) ==
    [entry EXCEPT !.count = entry.count + 1, !.lastRequest = t]

\* Mutant: one entry shared by every identity
StoreSetShared(store, ip, entry) ==
    [i \in DOMAIN store \cup {ip} |-> entry]

\* Store with key ip set to entry
StoreSet(store, ip, entry) ==
    [i \in DOMAIN store \cup {ip} |-> IF i = ip THEN entry ELSE store[i]]

\* Mutant: an admission is not counted
checkRateLimitStoreUncounted(store, ip, t) == store

\* The store after checkRateLimit for ip at time t
checkRateLimitStore(store, ip, t) ==
    LET entry == CurrentEntry(store, ip, t) IN
    IF LimitReached(entry) THEN store
    ELSE cleanupExpiredEntries(StoreSet(store, ip, Incremented(entry, t)), t)

\* The RateLimitResult of checkRateLimit for ip at time t. retryAfter is a
\* sequence: empty when the field is undefined.
checkRateLimitResult(store, ip, t) ==
    LET entry == CurrentEntry(store, ip, t) IN
    IF LimitReached(entry)
    THEN [allowed |-> FALSE, remaining |-> 0, resetTime |-> entry.resetTime,
          retryAfter |-> <<CeilDiv(entry.resetTime - t, 1000)>>]
    ELSE [allowed |-> TRUE,
          remaining |-> maxAttempts - Incremented(entry, t).count,
          resetTime |-> entry.resetTime, retryAfter |-> <<>>]

NoResult == [ip |-> None, allowed |-> TRUE, remaining |-> 0, resetTime |-> 0,
             retryAfter |-> <<>>, time |-> 0]

TotalChecks == LET RECURSIVE Sum(_)
                   Sum(S) == IF S = {} THEN 0
                             ELSE LET i == CHOOSE x \in S : TRUE
                                  IN Len(hist[i]) + Sum(S \ {i})
               IN Sum(IPs)

StoredCount(store, ip) == IF ip \in DOMAIN store THEN store[ip].count ELSE 0

\* One call of checkRateLimit(request) by a direct caller
CheckRateLimit(headers) ==
    LET ip == getClientIP(headers)
        res == checkRateLimitResult(rateLimitStore, ip, now)
        st == checkRateLimitStore(rateLimitStore, ip, now)
    IN /\ TotalChecks < MaxChecks
       /\ rateLimitStore' = st
       /\ lastResult' = [ip |-> ip, allowed |-> res.allowed,
                         remaining |-> res.remaining,
                         resetTime |-> res.resetTime,
                         retryAfter |-> res.retryAfter, time |-> now]
       /\ hist' = [hist EXCEPT ![ip] = Append(@,
                      [time |-> now, allowed |-> res.allowed,
                       remaining |-> res.remaining,
                       resetTime |-> res.resetTime,
                       retryAfter |-> res.retryAfter,
                       count |-> StoredCount(st, ip),
                       before |-> StoredCount(rateLimitStore, ip)])]
       /\ UNCHANGED <<nodeEnv, now, ticks, call>>
       /\ UNCHANGED genVars

\* The clock advances between calls
TickSteps == {1, windowMs}

TickUpTo(bound) ==
    /\ ticks < bound
    /\ \E d \in TickSteps : now' = now + d
    /\ ticks' = ticks + 1
    /\ UNCHANGED <<nodeEnv, rateLimitStore, lastResult, hist, call>>
    /\ UNCHANGED genVars

Tick == TickUpTo(MaxTicks)

InitRL ==
    /\ nodeEnv \in NodeEnvs
    /\ now = 0
    /\ ticks = 0
    /\ rateLimitStore = <<>>
    /\ lastResult = NoResult
    /\ hist = [ip \in IPs |-> <<>>]

----------------------------------------------------------------------------
(* Image payloads (base64 strings) by the properties the pipeline looks at *)

\* canonical: Buffer.from(s, 'base64').toString('base64') === s
\* decodable: sharp can decode the bytes as an image
\* format: the MIME type of what the bytes encode
NoPayload == [name |-> "", format |-> "", canonical |-> FALSE, bytes |-> 0,
              decodable |-> FALSE, watermarked |-> FALSE]
Photo == [name |-> "photo", format |-> "image/jpeg", canonical |-> TRUE,
          bytes |-> 200000, decodable |-> TRUE, watermarked |-> FALSE]
NotAnImage == [name |-> "text", format |-> "text/plain", canonical |-> TRUE,
               bytes |-> 1000, decodable |-> FALSE, watermarked |-> FALSE]
Portrait == [name |-> "portrait", format |-> "image/png", canonical |-> TRUE,
             bytes |-> 300000, decodable |-> TRUE, watermarked |-> FALSE]
Oversized == [name |-> "oversized", format |-> "image/jpeg",
              canonical |-> TRUE, bytes |-> 6000000, decodable |-> TRUE,
              watermarked |-> FALSE]
Gif == [name |-> "gif", format |-> "image/gif", canonical |-> TRUE,
        bytes |-> 300000, decodable |-> TRUE, watermarked |-> FALSE]

\* What the provider can answer with
ProviderPayloads == {Portrait, NotAnImage, Oversized}

\* Error texts as word sequences
ProviderErrors ==
    { <<"API", "key", "not", "valid">>,
      <<"quota", "exceeded">>,
      <<"No", "image", "generated", "in", "response">> }

\* String.prototype.includes on word sequences
Includes(msg, pat) ==
    \E i \in 0..(Len(msg) - Len(pat)) :
        \A k \in 1..Len(pat) : msg[i + k] = pat[k]

----------------------------------------------------------------------------
(* Request bodies of the preview endpoint *)

Styles == {"professional", "casual", "executive", "creative"}
Backgrounds == {"office", "studio", "outdoor", "conference"}
Industries == {"technology", "finance", "healthcare", "legal", "education",
               "consulting", "marketing", "sales", "general"}

PREVIEW_SIZE == 512
FULL_SIZE == 2048
PREVIEW_COST == 39
MaxImageBytes == 10 * 1024 * 1024
MaxPreviewBytes == 5 * 1024 * 1024

\* file: the content of UploadedImage.file
NoImage == [present |-> FALSE, id |-> "", type |-> "", size |-> 0,
            width |-> 0, height |-> 0, file |-> "", base64Data |-> NoPayload]
GoodImage == [present |-> TRUE, id |-> "img", type |-> "image/jpeg",
              size |-> 200000, width |-> 1024, height |-> 1024,
              file |-> "photo", base64Data |-> Photo]
NoOptions == [present |-> FALSE, style |-> "", background |-> "",
              industry |-> ""]
GoodOptions == [present |-> TRUE, style |-> "professional",
                background |-> "office", industry |-> ""]

\* json: the body parses as JSON
Bodies ==
    { [json |-> TRUE, image |-> GoodImage, options |-> GoodOptions],
      [json |-> TRUE, image |-> [GoodImage EXCEPT !.width = 256, !.height = 256],
       options |-> GoodOptions],
      [json |-> TRUE, image |-> [GoodImage EXCEPT !.base64Data = NotAnImage],
       options |-> GoodOptions],
      [json |-> TRUE, image |-> NoImage, options |-> GoodOptions],
      [json |-> TRUE, image |-> [GoodImage EXCEPT !.base64Data = NoPayload],
       options |-> GoodOptions],
      [json |-> TRUE, image |-> GoodImage,
       options |-> [GoodOptions EXCEPT !.style = ""]],
      [json |-> TRUE, image |-> GoodImage,
       options |-> [GoodOptions EXCEPT !.style = "punk"]],
      [json |-> TRUE, image |-> GoodImage,
       options |-> [GoodOptions EXCEPT !.industry = "astrology"]],
      [json |-> FALSE, image |-> NoImage, options |-> NoOptions] }

NoBody == [json |-> FALSE, image |-> NoImage, options |-> NoOptions]

\* A validation that stops at the first error
validateImageForAIFirstError(image) ==
    IF image.width < PREVIEW_SIZE THEN <<"width">>
    ELSE IF image.height < PREVIEW_SIZE THEN <<"height">>
    ELSE IF image.size > MaxImageBytes THEN <<"size">>
    ELSE <<>>

\* ImageUtils.validateImageForAI: the errors
validateImageForAI(image) ==
    (IF image.width < PREVIEW_SIZE THEN <<"width">> ELSE <<>>)
    \o (IF image.height < PREVIEW_SIZE THEN <<"height">> ELSE <<>>)
    \o (IF image.size > MaxImageBytes THEN <<"size">> ELSE <<>>)

\* ImageUtils.validateImageForAI: the warnings. The aspect ratio
\* width / height is compared with 0.5 and 2.0 (Infinity for a height of 0,
\* NaN for 0 / 0).
validateImageWarnings(image) ==
    (IF 2 * image.width < image.height \/ image.width > 2 * image.height
     THEN <<"aspect ratio">> ELSE <<>>)
    \o (IF image.width < FULL_SIZE \/ image.height < FULL_SIZE
        THEN <<"below full size">> ELSE <<>>)

\* ValidationUtils.validateGenerationRequest: isValid (the option and size
\* checks only add warnings)
validateGenerationRequest(image, options, size) ==
    validateImageForAI(image) = <<>>

\* CustomizationOptions.mood
Moods == {"confident", "friendly", "authoritative", "approachable"}

\* PromptBuilder.validateContext: the errors
validateContext(ctx) ==
    (IF ctx.style \notin Styles THEN <<"Invalid style">> ELSE <<>>)
    \o (IF ctx.background \notin Backgrounds
        THEN <<"Invalid background">> ELSE <<>>)
    \o (IF ctx.industry # "" /\ ctx.industry \notin Industries
        THEN <<"Invalid industry">> ELSE <<>>)

\* `x || d`
OrDefault(x, d) == IF x = "" THEN d ELSE x

\* PromptBuilder.buildPrompt throws a TypeError when the style or background
\* has no entry in the description tables (styleDesc.attire of undefined)
buildPromptThrows(options) ==
    \/ OrDefault(options.style, "professional") \notin Styles
    \/ OrDefault(options.background, "office") \notin Backgrounds

----------------------------------------------------------------------------
(* Responses of the preview endpoint *)

\* rateLimit: the X-RateLimit-Remaining and X-RateLimit-Reset headers
NoResponse == [status |-> 0, success |-> FALSE, error |-> <<>>,
               retryAfter |-> <<>>, resetTime |-> <<>>, rateLimit |-> <<>>,
               imageData |-> NoPayload, watermarked |-> FALSE]

ErrorResponse(code, msg) == [NoResponse EXCEPT !.status = code, !.error = msg]

\* lines 442-462: the answer to a denied request
RateLimitedResponse(res) ==
    [ErrorResponse(429, <<"Rate limit exceeded. Please try again later.">>)
        EXCEPT !.retryAfter = res.retryAfter,
               !.resetTime = <<res.resetTime>>,
               !.rateLimit = <<res.remaining, res.resetTime>>]

\* lines 464-527 of the handler, after request.json(): the response that ends
\* the request before generation, or NoResponse to go on
PreflightResponse(body) ==
    IF ~body.json
    THEN ErrorResponse(500, <<"Preview generation failed:", "SyntaxError">>)
    ELSE IF ~body.image.present \/ ~body.options.present
    THEN ErrorResponse(400, <<"Missing required fields: image and options are required">>)
    ELSE IF \/ body.image.base64Data = NoPayload
            \/ body.image.id = ""
            \/ body.image.type = ""
    THEN ErrorResponse(400, <<"Invalid image data: missing required fields">>)
    ELSE IF body.options.background = "" \/ body.options.style = ""
    THEN ErrorResponse(400, <<"Invalid options: background and style are required">>)
    ELSE IF buildPromptThrows(body.options)
    THEN ErrorResponse(500, <<"Preview generation failed:", "TypeError">>)
    ELSE LET errs == validateContext(
                 [style |-> OrDefault(body.options.style, "professional"),
                  background |-> OrDefault(body.options.background, "office"),
                  industry |-> OrDefault(body.options.industry, "general")])
         IN IF errs # <<>>
            THEN ErrorResponse(400, <<"Invalid prompt context:">> \o errs)
            ELSE NoResponse

----------------------------------------------------------------------------
(* AIResponseHandler.processResponse and                                    *)
(* WatermarkService.addPreviewWatermark                                     *)

NoGen == [success |-> FALSE, imageData |-> NoPayload, error |-> <<>>,
          cost |-> 0]

\* AIResponseHandler.base64ToBlob: the type of the blob is the mimeType
\* argument, not what the bytes encode
base64ToBlob(payload, mimeType) == [size |-> payload.bytes, type |-> mimeType]

\* Mutant: dimensions that cannot be determined are an error
validateImageDataStrict(payload, maxFileSize, allowedFormats) ==
    <<"Could not determine image dimensions">>

\* AIResponseHandler.validateImageData on the server: the errors. The blob is
\* always built with the default MIME type 'image/jpeg', and
\* getImageDimensions returns null, so only encoding and size can fail.
validateImageData(payload, maxFileSize, allowedFormats) ==
    IF ~payload.canonical THEN <<"Invalid base64 image data">>
    ELSE LET blob == base64ToBlob(payload, "image/jpeg") IN
         (IF blob.size > maxFileSize THEN <<"Image too large">> ELSE <<>>)
         \o (IF blob.type \notin allowedFormats
             THEN <<"Unsupported format">> ELSE <<>>)

NoProc == [success |-> FALSE, imageData |-> NoPayload, error |-> <<>>,
           warnings |-> <<>>]

\* AIResponseHandler.processResponse as the preview endpoint calls it
processResponse(gen) ==
    IF ~gen.success \/ gen.imageData = NoPayload
    THEN [NoProc EXCEPT !.error = IF gen.error # <<>> THEN gen.error
                                  ELSE <<"No image data received">>]
    ELSE LET errs == validateImageData(gen.imageData, MaxPreviewBytes,
                         {"image/jpeg", "image/png", "image/webp"})
         IN IF errs # <<>>
            THEN [NoProc EXCEPT !.error = <<"Image validation failed:">> \o errs]
            ELSE [success |-> TRUE, imageData |-> gen.imageData,
                  error |-> <<>>,
                  warnings |-> <<"Could not determine image dimensions">>]

NoWm == [success |-> FALSE, imageData |-> NoPayload, error |-> <<>>]

\* WatermarkService.addPreviewWatermark: sharp throws on bytes it cannot
\* decode, and the catch turns that into success:false
addPreviewWatermark(payload) ==
    IF payload.decodable
    THEN [success |-> TRUE,
          imageData |-> [payload EXCEPT !.watermarked = TRUE],
          error |-> <<>>]
    ELSE [NoWm EXCEPT !.error = <<"Input buffer contains unsupported image format">>]

----------------------------------------------------------------------------
(* The preview endpoint, POST.  A request is cut at the awaits across which *)
(* other requests can change what it reads: request.json(), the provider    *)
(* call and the backoff timer.  processResponse and addPreviewWatermark     *)
(* await request-local work only, so the handler runs from the generation   *)
(* result to its response in one step.                                      *)

Slots == 1..MaxSlots

NoRl == [allowed |-> FALSE, remaining |-> 0, resetTime |-> 0,
         retryAfter |-> <<>>]

NoDecision == [retry |-> FALSE, delay |-> 0]

\* pc: idle, json (awaiting request.json()), provider (awaiting the provider),
\* delay (awaiting the backoff timer), done
\* caller: POST for a request of the preview endpoint, direct for a call of
\* aiService.generatePortrait from elsewhere
\* size, prompt: the size class and the prompt override of the
\* GenerationRequest
\* decision: what the catch block of generatePortrait decided last;
\* solo, soloDecision: the retry counter and the decision this request would
\* have with a retry counter of its own
IdleReq == [pc |-> "idle", caller |-> None, ip |-> None, body |-> NoBody,
            size |-> None, prompt |-> "", rl |-> NoRl,
            calls |-> 0, delays |-> <<>>, lastErr |-> <<>>,
            decision |-> NoDecision, solo |-> 0, soloDecision |-> NoDecision,
            gen |-> NoGen, proc |-> NoProc, wm |-> NoWm,
            stages |-> <<>>, resp |-> NoResponse]

\* Backoff of the retry logic: `this.delay(1000 * this.retryCount)`
BackoffMs(count) == 1000 * count

\* line 595: `watermarkResult.imageData || processedResponse.imageData`
WatermarkedImageData(wm, processed) ==
    IF wm.imageData # NoPayload THEN wm.imageData ELSE processed

\* A handler that goes through every stage whatever the earlier ones gave
FinishAllStages(q, g) ==
    LET p == processResponse(g)
        w == addPreviewWatermark(g.imageData)
    IN [q EXCEPT !.pc = "done", !.gen = g, !.proc = p, !.wm = w,
                 !.stages = @ \o <<"processing", "watermark">>,
                 !.resp = IF g.success /\ p.success
                          THEN [NoResponse EXCEPT
                                  !.status = 200, !.success = TRUE,
                                  !.imageData =
                                      WatermarkedImageData(w, p.imageData),
                                  !.watermarked = TRUE]
                          ELSE ErrorResponse(500, g.error \o p.error)]

\* lines 549-628: from the result g of generatePortrait to the response
Finish(q, g) ==
    IF ~g.success \/ g.imageData = NoPayload
    THEN [q EXCEPT !.pc = "done", !.gen = g,
                   !.resp = ErrorResponse(500,
                       IF g.error # <<>> THEN g.error
                       ELSE <<"Failed to generate preview">>)]
    ELSE LET p == processResponse(g) IN
         IF ~p.success \/ p.imageData = NoPayload
         THEN [q EXCEPT !.pc = "done", !.gen = g, !.proc = p,
                        !.stages = Append(@, "processing"),
                        !.resp = ErrorResponse(500,
                            IF p.error # <<>> THEN p.error
                            ELSE <<"Failed to process generated image">>)]
         ELSE LET w == addPreviewWatermark(p.imageData) IN
              [q EXCEPT !.pc = "done", !.gen = g, !.proc = p, !.wm = w,
                        !.stages = @ \o <<"processing", "watermark">>,
                        !.resp = [NoResponse EXCEPT
                            !.status = 200, !.success = TRUE,
                            !.imageData = WatermarkedImageData(w, p.imageData),
                            !.watermarked = TRUE,
                            !.rateLimit = <<q.rl.remaining, q.rl.resetTime>>]]

\* What is kept of an answered request: the response and how it came about
NoAnswer == [body |-> NoBody, size |-> None, stages |-> <<>>, calls |-> 0,
             delays |-> <<>>,
             decision |-> NoDecision, soloDecision |-> NoDecision,
             gen |-> NoGen, proc |-> NoProc, wm |-> NoWm,
             resp |-> NoResponse]

\* The request q of slot r is answered and the slot is free again
Answer(r, q) ==
    /\ completed' = [body |-> q.body, size |-> q.size, stages |-> q.stages, calls |-> q.calls,
                     delays |-> q.delays, decision |-> q.decision,
                     soloDecision |-> q.soloDecision, gen |-> q.gen,
                     proc |-> q.proc, wm |-> q.wm, resp |-> q.resp]
    /\ req' = [req EXCEPT ![r] = IdleReq]

\* generatePortrait returns g to its caller: the endpoint goes on to its
\* response, a direct caller just has the result
Return(r, q, g) ==
    IF q.caller = "POST" THEN Answer(r, Finish(q, g))
    ELSE Answer(r, [q EXCEPT !.pc = "done", !.gen = g])

\* AIService.convertImageToBase64: the base64 string of the file's content
convertImageToBase64(file) ==
    CHOOSE p \in {NoPayload, Photo, NotAnImage, Portrait, Oversized} :
        p.name = file

\* The skip mode answering without its image
SkipResultEmpty(request) ==
    [success |-> TRUE, imageData |-> NoPayload, error |-> <<>>, cost |-> 0]

\* lines 57-79: the result of the skip mode
SkipResult(request) ==
    [success |-> TRUE,
     imageData |-> IF request.image.base64Data # NoPayload
                   THEN request.image.base64Data
                   ELSE convertImageToBase64(request.image.file),
     error |-> <<>>, cost |-> 0]

\* AIService.calculateCost, in thousandths
FULL_COST == 39
calculateCost(size) == IF size = "preview" THEN PREVIEW_COST ELSE FULL_COST

\* Entry of generatePortrait up to its first await, for the request q of
\* slot r: the retry counter is reset, then either the skip mode answers with
\* the source image or the provider is called.
GenEnter(r, q) ==
    /\ retryCount' = 0
    /\ IF devModeSkipAI
       THEN Return(r, [q EXCEPT !.solo = 0], SkipResult(q.body))
       ELSE /\ req' = [req EXCEPT ![r] =
                  [q EXCEPT !.pc = "provider", !.solo = 0,
                            !.calls = q.calls + 1,
                            !.stages = Append(q.stages, "provider")]]
            /\ UNCHANGED completed

\* The clients of the endpoint resolve to one identity, under either header:
\* the case in which requests compete for admission
PreviewHeaders == {h \in HeaderChoices : getClientIP(h) = "a"}

\* POST up to `await request.json()`: admission
PostArrive(r) ==
    /\ req[r].pc = "idle"
    /\ \A r2 \in Slots : r2 < r => req[r2].pc # "idle"
    /\ posts < MaxPosts
    /\ \E h \in PreviewHeaders :
          LET ip == getClientIP(h)
              res == checkRateLimitResult(rateLimitStore, ip, now)
              q == [IdleReq EXCEPT !.caller = "POST", !.ip = ip, !.rl = res,
                                   !.stages = <<"admission">>]
          IN /\ rateLimitStore' = checkRateLimitStore(rateLimitStore, ip, now)
             /\ IF res.allowed
                THEN /\ req' = [req EXCEPT ![r] = [q EXCEPT !.pc = "json"]]
                     /\ UNCHANGED completed
                ELSE Answer(r, [q EXCEPT !.pc = "done",
                                         !.resp = RateLimitedResponse(res)])
    /\ posts' = posts + 1
    /\ UNCHANGED <<nodeEnv, now, ticks, lastResult, hist, call, devModeSkipAI,
                   maxRetries, retryCount>>

\* From the parsed body to the call of aiService.generatePortrait
PostValidate(r) ==
    /\ req[r].pc = "json"
    /\ \E b \in Bodies :
          LET q == [req[r] EXCEPT !.body = b,
                                  !.stages = Append(@, "validation")]
              pre == PreflightResponse(b)
          IN IF pre.status # 0
             THEN /\ Answer(r, [q EXCEPT !.pc = "done", !.resp = pre])
                  /\ UNCHANGED retryCount
             ELSE GenEnter(r, [q EXCEPT !.size = "preview",
                                        !.prompt = "detailed"])
    /\ UNCHANGED <<rlVars, call, devModeSkipAI, maxRetries, posts>>

\* The provider answers with an image
ProviderReturn(r) ==
    /\ req[r].pc = "provider"
    /\ \E p \in ProviderPayloads :
          Return(r, req[r], [success |-> TRUE, imageData |-> p,
                             error |-> <<>>,
                             cost |-> calculateCost(req[r].size)])
    /\ UNCHANGED <<rlVars, call, devModeSkipAI, maxRetries, retryCount, posts>>

\* line 116: `this.retryCount < this.config.maxRetries`
RetryAllowed(count, ceiling) == count < ceiling

\* The decision of the catch block for a retry counter and a ceiling
RetryDecision(count, ceiling) ==
    IF RetryAllowed(count, ceiling)
    THEN [retry |-> TRUE, delay |-> BackoffMs(count + 1)]
    ELSE [retry |-> FALSE, delay |-> 0]

\* The provider call fails: the catch block of generatePortrait
ProviderFail(r) ==
    /\ req[r].pc = "provider"
    /\ \E e \in ProviderErrors :
          LET d == RetryDecision(retryCount, maxRetries)
              sd == RetryDecision(req[r].solo, maxRetries)
              q == [req[r] EXCEPT
                      !.lastErr = e, !.decision = d, !.soloDecision = sd,
                      !.solo = IF sd.retry THEN @ + 1 ELSE @]
          IN IF d.retry
             THEN /\ retryCount' = retryCount + 1
                  /\ req' = [req EXCEPT ![r] =
                        [q EXCEPT !.pc = "delay",
                                  !.delays = Append(@, d.delay)]]
                  /\ UNCHANGED completed
             ELSE /\ retryCount' = retryCount
                  /\ Return(r, q,
                        [NoGen EXCEPT
                           !.error = <<"Failed to generate image:">> \o e])
    /\ UNCHANGED <<rlVars, call, devModeSkipAI, maxRetries, posts>>

\* The backoff timer fires: `return this.generatePortrait(request)`
DelayDone(r) ==
    /\ req[r].pc = "delay"
    /\ req[r].calls < MaxCalls
    /\ GenEnter(r, req[r])
    /\ UNCHANGED <<rlVars, call, devModeSkipAI, maxRetries, posts>>

\* The requests of direct callers: an uploaded image (with or without its
\* base64Data) and options, a size class and a prompt override
GenRequests ==
    { [body |-> [json |-> TRUE, image |-> GoodImage, options |-> GoodOptions],
       size |-> "preview", prompt |-> ""],
      [body |-> [json |-> TRUE, image |-> GoodImage, options |-> GoodOptions],
       size |-> "full", prompt |-> "custom"],
      [body |-> [json |-> TRUE,
                 image |-> [GoodImage EXCEPT !.base64Data = NoPayload],
                 options |-> GoodOptions],
       size |-> "preview", prompt |-> ""],
      [body |-> [json |-> TRUE, image |-> GoodImage,
                 options |-> [GoodOptions EXCEPT !.style = "punk"]],
       size |-> "full", prompt |-> ""] }

\* A direct call of aiService.generatePortrait
GenCall(r) ==
    /\ req[r].pc = "idle"
    /\ \A r2 \in Slots : r2 < r => req[r2].pc # "idle"
    /\ posts < MaxRequests
    /\ posts' = posts + 1
    /\ \E g \in GenRequests :
          GenEnter(r, [IdleReq EXCEPT !.caller = "direct", !.body = g.body,
                                      !.size = g.size, !.prompt = g.prompt])
    /\ UNCHANGED <<rlVars, call, devModeSkipAI, maxRetries>>

\* The clock advances while requests are served
PreviewTick == TickUpTo(MaxPreviewTicks)

\* env.getAIConfig(): `maxRetries: 0`
DefaultMaxRetries == 0

\* No pure function applied yet
NoCall == [fn |-> "", arg |-> <<>>, out |-> <<>>]

\* The service as the build configures it
InitGen ==
    /\ devModeSkipAI \in IF nodeEnv = "development" THEN {TRUE} ELSE BOOLEAN
    /\ maxRetries = DefaultMaxRetries
    /\ retryCount = 0
    /\ req = [r \in Slots |-> IdleReq]
    /\ completed = NoAnswer
    /\ posts = 0
    /\ call = NoCall

\* The services at rest, for the specification of the rate limiter alone
InitGenIdle ==
    /\ devModeSkipAI = (nodeEnv = "development")
    /\ maxRetries = DefaultMaxRetries
    /\ retryCount = 0
    /\ req = [r \in Slots |-> IdleReq]
    /\ completed = NoAnswer
    /\ posts = 0
    /\ call = NoCall

vars == <<nodeEnv, now, ticks, rateLimitStore, lastResult, hist,
          devModeSkipAI, maxRetries, retryCount, req, completed, posts, call>>

Init == InitRL /\ InitGenIdle

Next ==
    \/ \E h \in HeaderChoices : CheckRateLimit(h)
    \/ Tick

Spec == Init /\ [][Next]_vars

----------------------------------------------------------------------------
(* The debug endpoint clear-rate-limit and the status query.  One request   *)
(* per behaviour, at any point of the rate limiter's life; its input and     *)
(* its answer are recorded in call.                                          *)

\* Bodies of the debug POST: malformed JSON, no ip, and an ip to clear
DebugBodies ==
    {[json |-> FALSE, ip |-> ""]}
    \cup {[json |-> TRUE, ip |-> i] : i \in IPs \cup {"", "c"}}

\* Mutant: the endpoint is open in every environment
DevelopmentOnlyOff(env) == FALSE

\* `process.env.NODE_ENV !== 'development'`
DevelopmentOnly(env) == env # "development"

Forbidden == [status |-> 403, cleared |-> FALSE, entry |-> <<>>, allEntries |-> <<>>]

\* RateLimitService.clearForIP
clearForIP(store, ip) == [i \in DOMAIN store \ {ip} |-> store[i]]

\* POST of the debug endpoint
DebugPost ==
    \E body \in DebugBodies :
        /\ call = NoCall
        /\ IF DevelopmentOnly(nodeEnv)
           THEN /\ call' = [fn |-> "debugPOST", arg |-> body, out |-> Forbidden]
                /\ rateLimitStore' = rateLimitStore
           ELSE IF ~body.json
           THEN /\ call' = [fn |-> "debugPOST", arg |-> body,
                            out |-> [Forbidden EXCEPT !.status = 500]]
                /\ rateLimitStore' = rateLimitStore
           ELSE IF body.ip # ""
           THEN /\ call' = [fn |-> "debugPOST", arg |-> body,
                            out |-> [Forbidden EXCEPT !.status = 200,
                                        !.cleared = body.ip \in DOMAIN rateLimitStore]]
                /\ rateLimitStore' = clearForIP(rateLimitStore, body.ip)
           ELSE /\ call' = [fn |-> "debugPOST", arg |-> body,
                            out |-> [Forbidden EXCEPT !.status = 200]]
                /\ rateLimitStore' = <<>>
        /\ UNCHANGED <<nodeEnv, now, ticks, lastResult, hist>>
        /\ UNCHANGED genVars

\* The x-forwarded-for header as sent: its parts joined by ','
RECURSIVE RawForwarded(_)
RawForwarded(parts) ==
    IF Len(parts) = 1 THEN parts[1]
    ELSE parts[1] \o "," \o RawForwarded(Tail(parts))

\* The identity the debug GET looks up: the raw x-forwarded-for header,
\* else x-real-ip, else 'unknown'
debugClientIP(headers) ==
    IF headers.forwarded # <<>> THEN RawForwarded(headers.forwarded)
    ELSE IF headers.realIP # None THEN headers.realIP
    ELSE "unknown"

\* GET of the debug endpoint: getDebugInfo(clientIP).entry and getAllEntries()
DebugGet ==
    \E headers \in HeaderChoices :
        LET ip == debugClientIP(headers) IN
        /\ call = NoCall
        /\ call' = [fn |-> "debugGET", arg |-> headers,
                    out |-> IF DevelopmentOnly(nodeEnv) THEN Forbidden
                            ELSE [status |-> 200, cleared |-> FALSE,
                                  entry |-> IF ip \in DOMAIN rateLimitStore
                                            THEN <<rateLimitStore[ip]>>
                                            ELSE <<>>,
                                  allEntries |-> rateLimitStore]]
        /\ UNCHANGED <<nodeEnv, now, ticks, rateLimitStore, lastResult, hist>>
        /\ UNCHANGED genVars

\* `const maxAttempts = RATE_LIMIT_CONFIG.MAX_ATTEMPTS_PER_IP` of
\* getRateLimitStatus
StatusMaxAttempts == MAX_ATTEMPTS_PER_IP

\* RateLimitService.getRateLimitStatus: <<>> is null
getRateLimitStatus(store, ip, t) ==
    IF ip \notin DOMAIN store THEN <<>>
    ELSE LET entry == store[ip] IN
         IF IsExpired(entry, t)
         THEN <<[allowed |-> TRUE, remaining |-> StatusMaxAttempts,
                 resetTime |-> t + WINDOW_MS, retryAfter |-> <<>>]>>
         ELSE <<[allowed |-> entry.count < StatusMaxAttempts,
                 remaining |-> IF StatusMaxAttempts - entry.count > 0
                               THEN StatusMaxAttempts - entry.count ELSE 0,
                 resetTime |-> entry.resetTime,
                 retryAfter |-> IF entry.count >= StatusMaxAttempts
                                THEN <<CeilDiv(entry.resetTime - t, 1000)>>
                                ELSE <<>>]>>

\* A caller asks for the status of ip; next is what checkRateLimit would
\* return for ip at the same instant
GetRateLimitStatus ==
    \E ip \in IPs \cup {"c"} :
        /\ call = NoCall
        /\ call' = [fn |-> "getRateLimitStatus", arg |-> ip,
                    out |-> [status |-> getRateLimitStatus(rateLimitStore, ip, now),
                             next |-> checkRateLimitResult(rateLimitStore, ip, now)]]
        /\ UNCHANGED <<nodeEnv, now, ticks, rateLimitStore, lastResult, hist>>
        /\ UNCHANGED genVars

\* The rate limiter runs until the request is made
NextDebug ==
    \/ call = NoCall /\ \E h \in HeaderChoices : CheckRateLimit(h)
    \/ call = NoCall /\ Tick
    \/ DebugPost
    \/ DebugGet
    \/ GetRateLimitStatus

SpecDebug == Init /\ [][NextDebug]_vars

InitPreview == InitRL /\ InitGen

NextPreview ==
    \/ \E r \in Slots : PostArrive(r)
    \/ \E r \in Slots : PostValidate(r)
    \/ \E r \in Slots : ProviderReturn(r)
    \/ \E r \in Slots : ProviderFail(r)
    \/ PreviewTick

SpecPreview == InitPreview /\ [][NextPreview]_vars

\* generatePortrait under a configuration of the retry ceiling
\* (AIServiceConfig.maxRetries), called directly by concurrent callers
InitGenerate ==
    /\ InitRL
    /\ devModeSkipAI \in IF nodeEnv = "development" THEN {TRUE} ELSE BOOLEAN
    /\ maxRetries \in 0..MaxRetriesCfg
    /\ retryCount = 0
    /\ req = [r \in Slots |-> IdleReq]
    /\ completed = NoAnswer
    /\ posts = 0
    /\ call = NoCall

NextGenerate ==
    \/ \E r \in Slots : GenCall(r)
    \/ \E r \in Slots : ProviderReturn(r)
    \/ \E r \in Slots : ProviderFail(r)
    \/ \E r \in Slots : DelayDone(r)

SpecGenerate == InitGenerate /\ [][NextGenerate]_vars

----------------------------------------------------------------------------
(* The pure functions of the pipeline, applied to enumerated inputs *)

\* The function fn is applied to arg and returns out; one application is
\* looked at per behaviour
Apply(fn, arg, out) ==
    /\ call = NoCall
    /\ call' = [fn |-> fn, arg |-> arg, out |-> out]
    /\ UNCHANGED <<rlVars, genVars>>

\* Image sides in pixels, around the thresholds
Sides == {0, 256, 511, 512, 1023, 1024, 2047, 2048, 4096}

\* Dimensions: unknown (<<>>) or <<width, height>>
Dimensions == {<<>>} \cup (Sides \X Sides)

\* Generation times in ms, around the thresholds
GenerationTimes == {0, 4999, 5000, 14999, 15000, 60000}

SizeClasses == {"preview", "full"}

\* Math.min
Min(a, b) == IF a <= b THEN a ELSE b

\* A quality score that leaves the generation time out
assessQualityUntimed(dimensions, generationTime, size) ==
    IF dimensions # <<>> /\ Min(dimensions[1], dimensions[2]) >= 1024
    THEN "high" ELSE "medium"

\* AIResponseHandler.assessQuality
assessQuality(dimensions, generationTime, size) ==
    LET dimScore ==
            IF dimensions = <<>> THEN 0
            ELSE LET minDimension == Min(dimensions[1], dimensions[2])
                 IN IF minDimension >= 2048 THEN 3
                    ELSE IF minDimension >= 1024 THEN 2
                    ELSE IF minDimension >= 512 THEN 1
                    ELSE 0
        timeScore == IF generationTime < 5000 THEN 2
                     ELSE IF generationTime < 15000 THEN 1
                     ELSE 0
        sizeScore == IF size = "full" THEN 2
                     ELSE IF size = "preview" THEN 1
                     ELSE 0
        score == dimScore + timeScore + sizeScore
    IN IF score >= 6 THEN "high"
       ELSE IF score >= 3 THEN "medium"
       ELSE "low"

AssessQuality ==
    \E d \in Dimensions, t \in GenerationTimes, z \in SizeClasses :
        Apply("assessQuality", [dimensions |-> d, generationTime |-> t,
                                size |-> z],
              assessQuality(d, t, z))

\* Byte sizes around the 10MB limit
ImageSizes == {0, 200000, MaxImageBytes - 1, MaxImageBytes, MaxImageBytes + 1,
               15 * 1024 * 1024}

ValidateImageForAI ==
    \E w \in Sides, h \in Sides, z \in ImageSizes :
        LET image == [GoodImage EXCEPT !.width = w, !.height = h, !.size = z]
        IN Apply("validateImageForAI", image,
                 [isValid |-> validateImageForAI(image) = <<>>,
                  errors |-> validateImageForAI(image),
                  warnings |-> validateImageWarnings(image)])

\* Generation results handed to processResponse
GenerationResults ==
    { [success |-> TRUE, imageData |-> p, error |-> <<>>,
       cost |-> PREVIEW_COST] :
          p \in {NoPayload, Photo, NotAnImage, Portrait, Oversized, Gif} }
    \cup { [NoGen EXCEPT !.error = <<"Failed to generate image:">> \o e] :
              e \in ProviderErrors }

ProcessResponse ==
    \E g \in GenerationResults :
        Apply("processResponse", g, processResponse(g))

\* Prompt contexts: every field valid, absent ("") or outside its enum
PromptContexts ==
    [style : Styles \cup {"", "punk"},
     background : Backgrounds \cup {"beach"},
     industry : {"", "technology", "general", "astrology"},
     mood : {"", "confident", "angry"}]

ValidateContext ==
    \E ctx \in PromptContexts :
        Apply("validateContext", ctx,
              [isValid |-> validateContext(ctx) = <<>>,
               errors |-> validateContext(ctx)])

\* Partial<WatermarkOptions>, by the fields that are validated: each one
\* absent (<<>>) or <<value>>; textLen is text.length, opacity is in
\* hundredths
WatermarkOptionSets ==
    [textLen : {<<>>, <<25>>, <<101>>},
     opacity : {<<>>, <<-10>>, <<0>>, <<70>>, <<100>>, <<150>>},
     fontSize : {<<>>, <<-4>>, <<0>>, <<7>>, <<8>>, <<72>>, <<73>>},
     padding : {<<>>, <<-1>>, <<0>>, <<20>>}]

\* WatermarkService.DEFAULT_OPTIONS
DEFAULT_OPTIONS ==
    [textLen |-> <<25>>, opacity |-> <<70>>, fontSize |-> <<24>>,
     padding |-> <<20>>]

\* `x && ...`: the option is supplied and not 0
Truthy(x) == x # <<>> /\ x[1] # 0

\* WatermarkService.validateOptions: the errors
validateOptions(options) ==
    (IF Truthy(options.textLen) /\ options.textLen[1] > 100
     THEN <<"text">> ELSE <<>>)
    \o (IF Truthy(options.opacity)
           /\ (options.opacity[1] < 0 \/ options.opacity[1] > 100)
        THEN <<"opacity">> ELSE <<>>)
    \o (IF Truthy(options.fontSize)
           /\ (options.fontSize[1] < 8 \/ options.fontSize[1] > 72)
        THEN <<"fontSize">> ELSE <<>>)
    \o (IF Truthy(options.padding) /\ options.padding[1] < 0
        THEN <<"padding">> ELSE <<>>)

ValidateOptions ==
    \E o \in WatermarkOptionSets :
        Apply("validateOptions", o,
              [isValid |-> validateOptions(o) = <<>>,
               errors |-> validateOptions(o)])

\* `{ ...this.DEFAULT_OPTIONS, ...options }`
MergeOptions(defaults, options) ==
    [k \in DOMAIN defaults |->
        IF options[k] # <<>> THEN options[k] ELSE defaults[k]]

\* WatermarkService.addWatermarkServer: the image is decoded by sharp, the
\* SVG built from the options is composited on it
addWatermarkServer(payload, options) ==
    IF payload.decodable
    THEN [success |-> TRUE,
          imageData |-> [payload EXCEPT !.watermarked = TRUE],
          error |-> <<>>]
    ELSE [NoWm EXCEPT !.error = <<"Input buffer contains unsupported image format">>]

\* WatermarkService.addWatermark
addWatermark(payload, options) ==
    addWatermarkServer(payload, MergeOptions(DEFAULT_OPTIONS, options))

AddWatermark ==
    \E p \in {Photo, NotAnImage}, o \in WatermarkOptionSets :
        Apply("addWatermark", [imageData |-> p, options |-> o],
              addWatermark(p, o))

\* WatermarkOptions.position
Anchors == {"bottom-right", "bottom-center", "center", "top-right"}

\* `const padding = 20` of calculateServerPosition
ServerPadding == 20

\* WatermarkService.calculateServerPosition, in tenths of a pixel:
\* textHeight / 2 = fontSize * 1.2 / 2 is 6 tenths per unit of font size
calculateServerPosition(imageSize, position, fontSize) ==
    LET half == 5 * imageSize
        far == 10 * imageSize - 10 * ServerPadding
        halfText == 6 * fontSize
    IN CASE position = "bottom-center" -> [x |-> half, y |-> far - halfText]
         [] position = "bottom-right" -> [x |-> far, y |-> far - halfText]
         [] position = "top-right" ->
                [x |-> far, y |-> 10 * ServerPadding + halfText]
         [] position = "center" -> [x |-> half, y |-> half]
         [] OTHER -> [x |-> half, y |-> far - halfText]

\* Image sides and font sizes the watermark is computed for
WatermarkSides == {512, 513, 768, 1024, 2048}
FontSizes == {8, 16, 20, 24, 72}

\* lines 74-82: the position addWatermarkServer computes for an image of
\* width w and height h
CalculateServerPosition ==
    \E w \in WatermarkSides, h \in WatermarkSides, a \in Anchors,
       f \in FontSizes :
        Apply("calculateServerPosition",
              [width |-> w, height |-> h, position |-> a, fontSize |-> f],
              calculateServerPosition(w, a, f))

\* Error messages as word sequences with their case kept; <<>> is an error
\* without a message
ErrorMessages ==
    { <<"Invalid", "API", "key">>, <<"Quota", "exceeded">>,
      <<"quota", "exceeded">>, <<"Request", "timeout">>,
      <<"Rate", "limit", "exceeded">>, <<"rate", "limit", "exceeded">>,
      <<"API", "key", "quota", "timeout">>, <<"quota", "rate", "limit">>,
      <<"timeout", "rate", "limit">>, <<"rate", "limit", "timeout", "quota">>,
      <<"Network", "error">>, <<>> }

\* ErrorUtils.parseAIError: the first case-sensitive includes that matches
parseAIError(message) ==
    IF Includes(message, <<"API", "key">>)
    THEN [code |-> "INVALID_API_KEY",
          message |-> <<"Invalid", "or", "missing", "API", "key">>,
          retryable |-> FALSE]
    ELSE IF Includes(message, <<"quota">>)
    THEN [code |-> "QUOTA_EXCEEDED",
          message |-> <<"API", "quota", "exceeded">>, retryable |-> TRUE]
    ELSE IF Includes(message, <<"timeout">>)
    THEN [code |-> "TIMEOUT",
          message |-> <<"Request", "timed", "out">>, retryable |-> TRUE]
    ELSE IF Includes(message, <<"rate", "limit">>)
    THEN [code |-> "RATE_LIMITED",
          message |-> <<"Rate", "limit", "exceeded">>, retryable |-> TRUE]
    ELSE [code |-> "UNKNOWN_ERROR",
          message |-> IF message = <<>>
                      THEN <<"Unknown", "error", "occurred">> ELSE message,
          retryable |-> TRUE]

ParseAIError ==
    \E m \in ErrorMessages : Apply("parseAIError", m, parseAIError(m))

\* Characters of payload strings: letters of the base64 alphabet, the
\* padding sign, the URL-safe '-' and a character no base64 variant has
Base64Alphabet == {"A", "B", "Q", "/"}
Base64Chars == Base64Alphabet \cup {"=", "-", "$"}

Base64Strings == UNION {[1..n -> Base64Chars] : n \in 0..MaxBase64Len}

\* The 6-bit value of a character for the decoder (which also accepts the
\* URL-safe alphabet); 64 for a character it does not know
unbase64(c) ==
    CASE c = "A" -> 0 [] c = "B" -> 1 [] c = "Q" -> 16 [] c = "w" -> 48
      [] c = "8" -> 60 [] c = "+" -> 62 [] c = "-" -> 62 [] c = "/" -> 63
      [] OTHER -> 64

\* The character the encoder writes for a 6-bit value
base64Char(v) ==
    CASE v = 0 -> "A" [] v = 1 -> "B" [] v = 16 -> "Q" [] v = 48 -> "w"
      [] v = 60 -> "8" [] v = 62 -> "+" [] v = 63 -> "/" [] OTHER -> "?"

\* Buffer.from(str, 'base64'): the 6-bit values the decoder consumes. It
\* skips characters it does not know and stops at the first '='. The bytes
\* are these values packed 4 to 3; a tail of 2 values gives 1 byte, a tail of
\* 3 gives 2 bytes, a tail of 1 gives none.
RECURSIVE base64Decode(_)
base64Decode(str) ==
    IF str = <<>> \/ Head(str) = "=" THEN <<>>
    ELSE IF unbase64(Head(str)) = 64 THEN base64Decode(Tail(str))
    ELSE <<unbase64(Head(str))>> \o base64Decode(Tail(str))

base64ByteLength(values) ==
    3 * (Len(values) \div 4) + (CASE Len(values) % 4 = 2 -> 1
                                  [] Len(values) % 4 = 3 -> 2
                                  [] OTHER -> 0)

\* buffer.toString('base64') of the decoded bytes: whole groups as they were,
\* the tail with the bits that fell outside the last byte cleared, padded
\* with '='
base64Encode(values) ==
    LET n == Len(values)
        whole == 4 * (n \div 4)
        body == [k \in 1..whole |-> base64Char(values[k])]
    IN CASE n % 4 = 2 ->
              body \o <<base64Char(values[whole + 1]),
                        base64Char(16 * (values[whole + 2] \div 16)),
                        "=", "=">>
         [] n % 4 = 3 ->
              body \o <<base64Char(values[whole + 1]),
                        base64Char(values[whole + 2]),
                        base64Char(4 * (values[whole + 3] \div 4)), "=">>
         [] OTHER -> body

\* AIResponseHandler.isValidBase64 under Node
isValidBase64(str) == base64Encode(base64Decode(str)) = str

\* The payload a string is to the pipeline; image data '' is no image data
TextPayload(str) ==
    IF str = <<>> THEN NoPayload
    ELSE [name |-> "text", format |-> "text/plain",
          canonical |-> isValidBase64(str),
          bytes |-> base64ByteLength(base64Decode(str)),
          decodable |-> FALSE, watermarked |-> FALSE]

IsValidBase64 ==
    \E s \in Base64Strings :
        Apply("isValidBase64", s,
              [valid |-> isValidBase64(s),
               processed |-> processResponse(
                   [success |-> TRUE, imageData |-> TextPayload(s),
                    error |-> <<>>, cost |-> PREVIEW_COST])])

\* AIResponseHandler.getImageDimensions on the server (typeof window ===
\* 'undefined'): null, written <<>>
getImageDimensions(blob) == <<>>

NoMetadata == [generationTime |-> 0, size |-> "", dimensions |-> <<>>,
               format |-> "", quality |-> ""]

\* AIResponseHandler.extractMetadata followed by the quality assessment
extractMetadata(metrics, dimensions) ==
    [generationTime |-> metrics.duration, size |-> metrics.size,
     dimensions |-> dimensions, format |-> "image/jpeg",
     quality |-> assessQuality(dimensions, metrics.duration, metrics.size)]

\* processResponse(response, metrics): the result with its metadata
processResponseMetrics(gen, metrics) ==
    LET p == processResponse(gen) IN
    [success |-> p.success, imageData |-> p.imageData, error |-> p.error,
     warnings |-> p.warnings,
     metadata |-> IF p.success
                  THEN extractMetadata(metrics,
                           getImageDimensions(base64ToBlob(gen.imageData, "image/jpeg")))
                  ELSE NoMetadata]

ProcessResponseMetrics ==
    \E g \in GenerationResults, t \in GenerationTimes, z \in SizeClasses :
        Apply("processResponseMetrics",
              [response |-> g, metrics |-> [duration |-> t, size |-> z]],
              processResponseMetrics(g, [duration |-> t, size |-> z]))

\* WatermarkService.createWatermarkSvg: the overlay is as large as the image
\* and carries the text at calculateServerPosition(imageWidth, ...) in its
\* own coordinates (tenths of a pixel)
createWatermarkSvg(position, fontSize, imageWidth, imageHeight) ==
    [width |-> 10 * imageWidth, height |-> 10 * imageHeight,
     text |-> calculateServerPosition(imageWidth, position, fontSize)]

\* The composite of addWatermarkServer: the overlay is placed with its
\* corner at left = watermarkPos.x, top = watermarkPos.y, so its text lands at
\* the offset plus the text's position inside the overlay
compositeTextPoint(width, height, position, fontSize) ==
    LET svg == createWatermarkSvg(position, fontSize, width, height)
        watermarkPos == calculateServerPosition(width, position, fontSize)
    IN [left |-> watermarkPos.x, top |-> watermarkPos.y,
        x |-> watermarkPos.x + svg.text.x, y |-> watermarkPos.y + svg.text.y]

CompositeWatermark ==
    \E w \in WatermarkSides, h \in WatermarkSides, a \in Anchors, f \in FontSizes :
        Apply("composite",
              [width |-> w, height |-> h, position |-> a, fontSize |-> f],
              compositeTextPoint(w, h, a, f))

InitFunctions == Init

\* One application per behaviour
NextFunctions ==
    /\ call = NoCall
    /\ \/ AssessQuality
       \/ ValidateImageForAI
       \/ ProcessResponse
       \/ ValidateContext
       \/ ValidateOptions
       \/ AddWatermark
       \/ CalculateServerPosition
       \/ ParseAIError
       \/ IsValidBase64
       \/ ProcessResponseMetrics
       \/ CompositeWatermark

SpecFunctions == InitFunctions /\ [][NextFunctions]_vars

----------------------------------------------------------------------------
(* Properties of the rate limiter, stated over the recorded calls *)

Calls(ip) == DOMAIN hist[ip]
AdmittedIn(ip, i, j) == { k \in i..j : hist[ip][k].allowed }

\* C3: under a fixed ceiling N, every stored entry has count <= N, no admitted
\* call leaves the count above N, and once an identity's count equals N every
\* later check made no later than that entry's resetTime is denied.
C3_CountNeverExceedsCeiling ==
    /\ \A ip \in DOMAIN rateLimitStore : rateLimitStore[ip].count <= maxAttempts
    /\ \A ip \in IPs : \A k \in Calls(ip) :
          hist[ip][k].allowed => hist[ip][k].count <= maxAttempts
    /\ \A ip \in IPs : \A j, k \in Calls(ip) :
          (j < k /\ hist[ip][j].count = maxAttempts
                 /\ hist[ip][k].time <= hist[ip][j].resetTime)
              => ~hist[ip][k].allowed

\* An identity has used its whole ceiling and was then denied inside the window
C3_Witness ==
    \E ip \in IPs : \E j, k \in Calls(ip) :
        /\ j < k
        /\ hist[ip][j].allowed /\ hist[ip][j].count = maxAttempts
        /\ hist[ip][k].time <= hist[ip][j].resetTime
        /\ ~hist[ip][k].allowed
        /\ rateLimitStore[ip].count = maxAttempts

\* Index of the first check of ip made after the first window has elapsed
\* (0 when there is none)
FirstAfterWindow(ip) ==
    LET t1 == hist[ip][1].time
        late == { k \in Calls(ip) : hist[ip][k].time > t1 + windowMs }
    IN IF late = {} THEN 0 ELSE CHOOSE k \in late : \A m \in late : k <= m

\* C5: for a fresh identity whose first check is at t1, the k-th check inside
\* the window (k <= N) is admitted with remaining = N-k and resetTime =
\* t1 + window, the first one storing count 1; the first check after resetTime
\* has elapsed is admitted with remaining = N-1, resetTime = now + window and a
\* stored count of 1.
C5_WindowLifecycle ==
    \A ip \in IPs : hist[ip] # <<>> =>
        LET t1 == hist[ip][1].time
            j == FirstAfterWindow(ip)
        IN /\ hist[ip][1].count = 1
           /\ \A k \in Calls(ip) :
                 (k <= maxAttempts /\ hist[ip][k].time <= t1 + windowMs) =>
                     /\ hist[ip][k].allowed
                     /\ hist[ip][k].remaining = maxAttempts - k
                     /\ hist[ip][k].resetTime = t1 + windowMs
                     /\ hist[ip][k].count = k
           /\ j # 0 =>
                 /\ hist[ip][j].allowed
                 /\ hist[ip][j].remaining = maxAttempts - 1
                 /\ hist[ip][j].resetTime = hist[ip][j].time + windowMs
                 /\ hist[ip][j].count = 1

\* An expired entry holding more than one request was still stored when the
\* next check replaced it
C5_Witness ==
    \E ip \in IPs :
        /\ hist[ip] # <<>>
        /\ FirstAfterWindow(ip) > 2
        /\ hist[ip][FirstAfterWindow(ip)].before >= 2
        /\ hist[ip][FirstAfterWindow(ip)].count = 1
        /\ hist[ip][2].remaining = maxAttempts - 2

C7_DeniedRetryAfterPositive ==
    \A ip \in IPs : \A k \in Calls(ip) :
        ~hist[ip][k].allowed =>
            /\ hist[ip][k].remaining = 0
            /\ hist[ip][k].retryAfter =
                  <<CeilDiv(hist[ip][k].resetTime - hist[ip][k].time, 1000)>>
            /\ hist[ip][k].retryAfter[1] > 0

----------------------------------------------------------------------------
(* Properties of the preview endpoint *)

InFlight == { r \in Slots : req[r].pc # "idle" }
Range(seq) == { seq[i] : i \in DOMAIN seq }

\* C1: a preview whose watermarking failed is answered with a non-200
\* response without image data; every 200 response carries the output of a
\* successful addPreviewWatermark call on the processed image.
C1_PreviewAlwaysWatermarked ==
    /\ ("watermark" \in Range(completed.stages) /\ ~completed.wm.success)
          => /\ completed.resp.status # 200
             /\ completed.resp.imageData = NoPayload
    /\ completed.resp.status = 200
          => /\ completed.wm.success
             /\ completed.resp.imageData = completed.wm.imageData
             /\ completed.resp.imageData.watermarked

\* C2: an admitted preview request whose image fails
\* validateGenerationRequest (width or height below 512) never has a provider
\* call made for it.
C2_InvalidImageNeverReachesProvider ==
    \A r \in InFlight :
        (/\ req[r].caller = "POST"
         /\ req[r].body # NoBody
         /\ ~validateGenerationRequest(req[r].body.image,
                                       req[r].body.options, "preview"))
            => req[r].calls = 0

\* C4: of the concurrent preview requests of one identity admitted under one
\* window no two hold the same admission slot (the same remaining count), so
\* the last slot is taken at most once; and the store has counted a request
\* by the time it is suspended.
C4_LastSlotTakenOnce ==
    /\ \A r1, r2 \in InFlight :
          (/\ r1 # r2
           /\ req[r1].caller = "POST" /\ req[r2].caller = "POST"
           /\ req[r1].ip = req[r2].ip
           /\ req[r1].rl.resetTime = req[r2].rl.resetTime)
              => req[r1].rl.remaining # req[r2].rl.remaining
    /\ \A r \in InFlight :
          (/\ req[r].caller = "POST"
           /\ req[r].ip \in DOMAIN rateLimitStore
           /\ rateLimitStore[req[r].ip].resetTime = req[r].rl.resetTime)
              => /\ req[r].rl.allowed
                 /\ rateLimitStore[req[r].ip].count
                       >= maxAttempts - req[r].rl.remaining
                 /\ rateLimitStore[req[r].ip].count <= maxAttempts

\* A request holding the last slot of the window is still in flight when
\* another request of the same identity is answered 429 under that window
C4_Witness ==
    \E r \in InFlight :
        /\ req[r].caller = "POST"
        /\ req[r].rl.allowed /\ req[r].rl.remaining = 0
        /\ rateLimitStore[req[r].ip].count = maxAttempts
        /\ completed.resp.status = 429
        /\ completed.resp.resetTime = <<req[r].rl.resetTime>>

----------------------------------------------------------------------------
(* Properties of generatePortrait *)

\* C8: with a retry ceiling R, a request makes at most R + 1 provider calls.
C8_AtMostRPlusOneCalls ==
    /\ \A r \in InFlight : req[r].calls <= maxRetries + 1
    /\ completed.calls <= maxRetries + 1

\* C9: with a retry ceiling of at least 1, a provider failure whose text
\* contains 'API key' is not retried: one provider call, no backoff sleep.
C9_ApiKeyFailureNotRetried ==
    \A r \in InFlight :
        (maxRetries >= 1 /\ Includes(req[r].lastErr, <<"API", "key">>))
            => /\ req[r].pc # "delay"
               /\ req[r].delays = <<>>
               /\ req[r].calls = 1

\* C10: the retry decision and backoff delay of a request are those it would
\* have with a retry counter of its own, under every interleaving with another
\* request.
C10_NoCrossRequestInfluence ==
    /\ \A r \in InFlight : req[r].decision = req[r].soloDecision
    /\ completed.decision = completed.soloDecision

\* C11: when the provider call fails and the retry ceiling is 0, the preview
\* endpoint answers 500 and the error of the response does not contain the
\* text of the provider error.
C11_ProviderErrorTextNotExposed ==
    \A e \in ProviderErrors :
        (/\ maxRetries = 0
         /\ "provider" \in Range(completed.stages)
         /\ ~completed.gen.success
         /\ Includes(completed.gen.error, e))
            => /\ completed.resp.status = 500
               /\ ~Includes(completed.resp.error, e)

\* C12: an admitted preview request, complete otherwise, whose style,
\* background or industry is a non-empty value outside its enum is answered
\* 400 with an error naming the invalid field, and no provider call is made.
C12_InvalidEnumAnswered400 ==
    LET b == completed.body
        badStyle == b.options.style # "" /\ b.options.style \notin Styles
        badBackground == b.options.background # ""
                         /\ b.options.background \notin Backgrounds
        badIndustry == b.options.industry # ""
                       /\ b.options.industry \notin Industries
    IN (/\ b # NoBody /\ b.json /\ b.image.present /\ b.options.present
        /\ b.image.base64Data # NoPayload
        /\ b.options.style # "" /\ b.options.background # ""
        /\ (badStyle \/ badBackground \/ badIndustry))
           => /\ completed.resp.status = 400
              /\ completed.calls = 0
              /\ badStyle => "Invalid style" \in Range(completed.resp.error)
              /\ badBackground
                    => "Invalid background" \in Range(completed.resp.error)
              /\ badIndustry
                    => "Invalid industry" \in Range(completed.resp.error)

\* C13: in the skip mode generatePortrait makes no provider call and returns
\* success:true with the request's source image and cost 0, whatever the
\* options, the size class or the prompt override.
C13_SkipModeReturnsSource ==
    devModeSkipAI =>
        /\ \A r \in Slots : req[r].calls = 0 /\ req[r].pc # "provider"
        /\ completed.size # None =>
              /\ completed.calls = 0
              /\ completed.gen.success
              /\ completed.gen.cost = 0
              /\ completed.gen.imageData =
                    IF completed.body.image.base64Data # NoPayload
                    THEN completed.body.image.base64Data
                    ELSE Photo

\* The skip mode answered a full-size request with the source image
C13_Witness ==
    /\ devModeSkipAI
    /\ completed.size = "full"
    /\ completed.gen.success
    /\ completed.gen.imageData = Photo
    /\ completed.gen.cost = 0
    /\ posts = MaxRequests

\* Position of a stage in the pipeline
StageRank(st) ==
    CASE st = "admission" -> 1
      [] st = "validation" -> 2
      [] st = "provider" -> 3
      [] st = "processing" -> 4
      [] st = "watermark" -> 5

\* C14: the stages of a preview request run in the order admission, request
\* validation, provider call, response processing, watermarking, and a failed
\* stage is the last one: a rate-limited request makes no provider call, a
\* failed generation is neither processed nor watermarked, a failed processing
\* is not watermarked.
C14_StagesInOrderFailFast ==
    LET st == completed.stages IN
    /\ \A r \in InFlight : \A i, j \in DOMAIN req[r].stages :
          i < j => StageRank(req[r].stages[i]) <= StageRank(req[r].stages[j])
    /\ \A i, j \in DOMAIN st : i < j => StageRank(st[i]) < StageRank(st[j])
    /\ st # <<>> => st[1] = "admission"
    /\ Len(st) >= 2 => st[2] = "validation"
    /\ completed.resp.status = 429
          => /\ st = <<"admission">>
             /\ completed.calls = 0
             /\ completed.gen = NoGen
    /\ (completed.resp.status \in {400, 500} /\ "provider" \notin Range(st)
        /\ completed.gen = NoGen)
          => completed.calls = 0 /\ completed.proc = NoProc
    /\ ("validation" \in Range(st) /\ completed.resp.status # 0
        /\ ~completed.gen.success)
          => /\ "processing" \notin Range(st) /\ "watermark" \notin Range(st)
             /\ completed.proc = NoProc /\ completed.wm = NoWm
             /\ completed.resp.status \in {400, 500}
    /\ ("processing" \in Range(st) /\ ~completed.proc.success)
          => /\ "watermark" \notin Range(st)
             /\ completed.wm = NoWm
             /\ completed.resp.status = 500
    /\ "processing" \in Range(st) => completed.gen.success
    /\ "watermark" \in Range(st)
          => "processing" \in Range(st) /\ completed.proc.success

\* The provider was called and its output was rejected by the processing
\* stage, which ended the request
C14_Witness ==
    /\ completed.stages =
          <<"admission", "validation", "provider", "processing">>
    /\ completed.calls = 1
    /\ completed.gen.success
    /\ ~completed.proc.success
    /\ completed.wm = NoWm
    /\ completed.resp.status = 500

----------------------------------------------------------------------------
(* Properties of the pure functions *)

\* The tier of section 4.3 for a shorter side (-1 when the dimensions are
\* unknown), a generation time and a size class
QualityTier(shorter, time, size) ==
    LET score == (CASE shorter >= 2048 -> 3
                    [] shorter >= 1024 /\ shorter < 2048 -> 2
                    [] shorter >= 512 /\ shorter < 1024 -> 1
                    [] OTHER -> 0)
                 + (CASE time < 5000 -> 2
                      [] time >= 5000 /\ time < 15000 -> 1
                      [] OTHER -> 0)
                 + (CASE size = "full" -> 2
                      [] size = "preview" -> 1
                      [] OTHER -> 0)
    IN CASE score >= 6 -> "high"
         [] score >= 3 /\ score < 6 -> "medium"
         [] OTHER -> "low"

\* C15: the quality tier is the additive score of the shorter side, the
\* generation time and the size class, mapped to high (>= 6), medium (>= 3)
\* or low; unknown dimensions score 0.
C15_QualityIsReferenceScore ==
    call.fn = "assessQuality" =>
        LET d == call.arg.dimensions
            shorter == IF d = <<>> THEN -1
                       ELSE IF d[1] <= d[2] THEN d[1] ELSE d[2]
        IN call.out = QualityTier(shorter, call.arg.generationTime,
                                  call.arg.size)

\* A slow full-size generation of a 4096 x 1024 image: 2 + 0 + 2, medium
C15_Witness ==
    /\ call.fn = "assessQuality"
    /\ call.arg = [dimensions |-> <<4096, 1024>>, generationTime |-> 15000,
                   size |-> "full"]
    /\ call.out = "medium"

\* C16: validateImageForAI returns isValid exactly when width >= 512,
\* height >= 512 and size <= 10MB; the width, height and size errors are
\* reported exactly when their own limit is broken, and the warnings do not
\* change isValid.
C16_ImageValidationExact ==
    call.fn = "validateImageForAI" =>
        LET image == call.arg
            errs == Range(call.out.errors)
        IN /\ call.out.isValid <=> (/\ image.width >= 512
                                    /\ image.height >= 512
                                    /\ image.size <= 10 * 1024 * 1024)
           /\ "width" \in errs <=> image.width < 512
           /\ "height" \in errs <=> image.height < 512
           /\ "size" \in errs <=> image.size > 10 * 1024 * 1024
           /\ Len(call.out.errors) = Cardinality(errs)

\* An image too narrow and too heavy, with both warnings: two errors
C16_Witness ==
    /\ call.fn = "validateImageForAI"
    /\ call.arg.width = 511 /\ call.arg.height = 2048
    /\ call.arg.size = 10 * 1024 * 1024 + 1
    /\ call.out.errors = <<"width", "size">>
    /\ call.out.warnings = <<"aspect ratio", "below full size">>
    /\ ~call.out.isValid

\* C17: processResponse returns success:false for every generated payload
\* whose image format is not JPEG, PNG or WebP.
C17_UnsupportedFormatRejected ==
    (/\ call.fn = "processResponse"
     /\ call.arg.success
     /\ call.arg.imageData.format
            \notin {"image/jpeg", "image/png", "image/webp"})
        => ~call.out.success

\* C18: validateContext returns isValid = false exactly when style,
\* background, industry or mood holds a value outside its enum, with one
\* error for each such field.
C18_EveryOffendingFieldReported ==
    call.fn = "validateContext" =>
        LET ctx == call.arg
            offending ==
                (IF ctx.style \notin Styles THEN {"style"} ELSE {})
                \cup (IF ctx.background \notin Backgrounds
                      THEN {"background"} ELSE {})
                \cup (IF ctx.industry # "" /\ ctx.industry \notin Industries
                      THEN {"industry"} ELSE {})
                \cup (IF ctx.mood # "" /\ ctx.mood \notin Moods
                      THEN {"mood"} ELSE {})
        IN /\ call.out.isValid <=> offending = {}
           /\ Len(call.out.errors) = Cardinality(offending)

\* C19: addWatermark called with an opacity outside [0,1], a font size
\* outside [8,72] or a negative padding returns success:false and no image.
C19_InvalidOptionRejected ==
    call.fn = "addWatermark" =>
        LET o == call.arg.options IN
        (\/ o.opacity # <<>> /\ (o.opacity[1] < 0 \/ o.opacity[1] > 100)
         \/ o.fontSize # <<>> /\ (o.fontSize[1] < 8 \/ o.fontSize[1] > 72)
         \/ o.padding # <<>> /\ o.padding[1] < 0)
            => /\ ~call.out.success
               /\ call.out.imageData = NoPayload

\* C20: validateOptions returns isValid = false when the opacity is outside
\* [0,1], the font size outside [8,72] (0 included) or the padding negative,
\* and isValid = true when every supplied value is inside its range.
C20_OptionRangesEnforced ==
    call.fn = "validateOptions" =>
        LET o == call.arg
            bad == \/ o.opacity # <<>>
                      /\ (o.opacity[1] < 0 \/ o.opacity[1] > 100)
                   \/ o.fontSize # <<>>
                      /\ (o.fontSize[1] < 8 \/ o.fontSize[1] > 72)
                   \/ o.padding # <<>> /\ o.padding[1] < 0
        IN /\ bad => ~call.out.isValid
           /\ (~bad /\ (o.textLen = <<>> \/ o.textLen[1] <= 100))
                 => call.out.isValid

\* C21: for an image of width W and height H the watermark position is
\* x = W/2 (centered anchors) or W - padding (right anchors) and
\* y = H - padding - textHeight/2 (bottom anchors), padding + textHeight/2
\* (top-right) or H/2 (center); in tenths of a pixel here.
C21_PositionFromWidthAndHeight ==
    call.fn = "calculateServerPosition" =>
        LET W == call.arg.width
            H == call.arg.height
            a == call.arg.position
            halfText == 6 * call.arg.fontSize
        IN /\ call.out.x = IF a \in {"bottom-center", "center"}
                           THEN 5 * W ELSE 10 * W - 200
           /\ call.out.y = IF a \in {"bottom-center", "bottom-right"}
                           THEN 10 * H - 200 - halfText
                           ELSE IF a = "top-right" THEN 200 + halfText
                           ELSE 5 * H

\* C22: after every checkRateLimit call, admitted or denied, the store holds
\* no entry whose resetTime is earlier than the time of that call.
C22_NoExpiredEntryAfterCheck ==
    lastResult # NoResult =>
        \A i \in DOMAIN rateLimitStore :
            rateLimitStore[i].resetTime >= lastResult.time

\* A word with its letters in lower case
LowerCase(w) ==
    CASE w = "API" -> "api" [] w = "Quota" -> "quota" [] w = "Rate" -> "rate"
      [] w = "Request" -> "request" [] w = "Invalid" -> "invalid"
      [] w = "Network" -> "network" [] OTHER -> w

\* A message mentions a phrase, whatever its capitalisation
Mentions(msg, pat) ==
    Includes([k \in 1..Len(msg) |-> LowerCase(msg[k])], pat)

\* C23: parseAIError classifies by the first indication in the priority
\* API key > quota > timeout > rate limit ('Quota exceeded' is a quota
\* message, 'Rate limit exceeded' a rate-limit message); only INVALID_API_KEY
\* is not retryable; everything else is UNKNOWN_ERROR, retryable.
C23_ErrorClassifiedByPriority ==
    call.fn = "parseAIError" =>
        LET m == call.arg
            code == IF Mentions(m, <<"api", "key">>) THEN "INVALID_API_KEY"
                    ELSE IF Mentions(m, <<"quota">>) THEN "QUOTA_EXCEEDED"
                    ELSE IF Mentions(m, <<"timeout">>) THEN "TIMEOUT"
                    ELSE IF Mentions(m, <<"rate", "limit">>) THEN "RATE_LIMITED"
                    ELSE "UNKNOWN_ERROR"
        IN /\ call.out.code = code
           /\ call.out.retryable = (code # "INVALID_API_KEY")

\* C24: isValidBase64 is true for every string made only of base64-alphabet
\* characters, unpadded ones of any length included, and false for every
\* string with a character outside the alphabet; processResponse on a
\* successful generation with an alphabet-only payload succeeds.
C24_AlphabetStringsAreValid ==
    call.fn = "isValidBase64" =>
        LET s == call.arg
            chars == {s[k] : k \in 1..Len(s)}
        IN /\ chars \subseteq Base64Alphabet => call.out.valid
           /\ chars \cap {"$", "-"} # {} => ~call.out.valid
           /\ (s # <<>> /\ chars \subseteq Base64Alphabet) =>
                 call.out.processed.success

\* C25: outside development, every POST to the debug clear-rate-limit
\* endpoint is answered 403 and leaves the rate-limit store as it was, and
\* every GET is answered 403 and discloses no rate-limit entry.
C25_DebugEndpointClosedOutsideDevelopment ==
    [][(/\ nodeEnv # "development" /\ call = NoCall
        /\ call'.fn \in {"debugPOST", "debugGET"}) =>
          /\ call'.out.status = 403
          /\ rateLimitStore' = rateLimitStore
          /\ call'.out.entry = <<>>
          /\ call'.out.allEntries = <<>>]_vars

C25_Witness ==
    /\ nodeEnv = "production"
    /\ call.fn = "debugPOST"
    /\ call.arg.json
    /\ call.arg.ip \in DOMAIN rateLimitStore
    /\ call.out.status = 403

\* C26: on the server, where the dimensions of the output image cannot be
\* determined, processResponse for an otherwise valid payload returns
\* success:true with the original imageData, metadata without dimensions and
\* the could-not-determine-dimensions warning.
C26_UnknownDimensionsOnlyWarn ==
    (/\ call.fn = "processResponseMetrics"
     /\ call.arg.response.success
     /\ call.arg.response.imageData.canonical
     /\ call.arg.response.imageData.decodable
     /\ call.arg.response.imageData.format \in {"image/jpeg", "image/png", "image/webp"}
     /\ call.arg.response.imageData.bytes <= MaxPreviewBytes)
    => /\ call.out.success
       /\ call.out.imageData = call.arg.response.imageData
       /\ call.out.metadata.dimensions = <<>>
       /\ call.out.metadata # NoMetadata
       /\ \E k \in 1..Len(call.out.warnings) :
             call.out.warnings[k] = "Could not determine image dimensions"

C26_Witness ==
    /\ call.fn = "processResponseMetrics"
    /\ call.arg.response.imageData = Portrait
    /\ call.out.success
    /\ call.out.metadata.dimensions = <<>>
    /\ call.out.warnings = <<"Could not determine image dimensions">>

\* C27: for every image of width W and height H >= 512 and each anchor, the
\* point where the watermark text lands in the output (composite offset plus
\* the text's position inside the overlay) lies in [0, W] x [0, H].
C27_WatermarkTextInsideImage ==
    call.fn = "composite" =>
        /\ 0 <= call.out.x /\ call.out.x <= 10 * call.arg.width
        /\ 0 <= call.out.y /\ call.out.y <= 10 * call.arg.height

\* The count the window of ip holds at time t: 0 without an entry or with an
\* expired one
WindowCount(store, ip, t) ==
    IF ip \in DOMAIN store /\ ~IsExpired(store[ip], t) THEN store[ip].count
    ELSE 0

\* C28: every preview POST that is not answered 429 takes exactly one
\* admission slot of its identity, whatever its final status: the slot is
\* counted when the request is admitted, before its body is read, and no
\* later step of any request (400, 500 or 200) changes the store.
C28_EveryAdmittedPostTakesOneSlot ==
    [][/\ \A r \in Slots :
             (req[r].pc = "idle" /\ req'[r].pc = "json") =>
                 /\ StoredCount(rateLimitStore', req'[r].ip)
                       = WindowCount(rateLimitStore, req'[r].ip, now) + 1
                 /\ req'[r].rl.remaining
                       = maxAttempts - StoredCount(rateLimitStore', req'[r].ip)
       /\ posts' = posts => rateLimitStore' = rateLimitStore]_vars

\* Three requests were admitted, the last answered 400, and the identity's
\* window is used up
C28_Witness ==
    /\ posts = MAX_ATTEMPTS_PER_IP
    /\ nodeEnv = "production"
    /\ completed.resp.status = 400
    /\ \A r \in Slots : req[r].pc = "idle"
    /\ StoredCount(rateLimitStore, "a") = MAX_ATTEMPTS_PER_IP

\* The store after the first k checkRateLimit calls of ip, at their times,
\* with no call of any other identity in between
RECURSIVE SoloStore(_, _)
SoloStore(ip, k) ==
    IF k = 0 THEN <<>>
    ELSE checkRateLimitStore(SoloStore(ip, k - 1), ip, hist[ip][k].time)

\* The result of the k-th call of ip in that run
SoloResult(ip, k) ==
    checkRateLimitResult(SoloStore(ip, k - 1), ip, hist[ip][k].time)

\* C29: admission is isolated per identity: every result returned for an
\* identity (allowed, remaining, resetTime, retryAfter) is the one its own
\* calls at their times give in a run without the other identities' calls,
\* so any two runs that agree on those calls agree on the results, sweeps
\* triggered by other identities included.
C29_ResultsDependOnOwnCallsOnly ==
    \A ip \in IPs : \A k \in 1..Len(hist[ip]) :
        LET solo == SoloResult(ip, k) IN
        /\ hist[ip][k].allowed = solo.allowed
        /\ hist[ip][k].remaining = solo.remaining
        /\ hist[ip][k].resetTime = solo.resetTime
        /\ hist[ip][k].retryAfter = solo.retryAfter

\* The expired entry of an identity was swept by another identity's call
\* before its next call, and both identities have been checked
C29_Witness ==
    \E ip \in IPs : \E other \in IPs \ {ip} :
        /\ Len(hist[other]) > 0
        /\ \E k \in 2..Len(hist[ip]) :
              /\ hist[ip][k].before = 0
              /\ hist[ip][k].allowed
              /\ \E j \in 1..Len(hist[other]) :
                    /\ hist[other][j].allowed
                    /\ hist[other][j].time > hist[ip][k - 1].resetTime
                    /\ hist[other][j].time <= hist[ip][k].time

\* C30: in development and in production alike, getRateLimitStatus(ip) for
\* an identity with a stored entry reports allowed exactly when a
\* checkRateLimit that follows immediately would admit the identity, and its
\* remaining is the number of requests checkRateLimit would still admit in
\* the current window.
C30_StatusAgreesWithCheck ==
    (call.fn = "getRateLimitStatus" /\ call.out.status # <<>>) =>
        LET status == call.out.status[1]
            next == call.out.next
        IN /\ status.allowed = next.allowed
           /\ status.remaining = IF next.allowed THEN next.remaining + 1 ELSE 0

====
